---- MODULE Spec2Model ----
(***************************************************************************)
(* Model of src/app.py: the Streamlit personal finance projection tool.    *)
(*                                                                         *)
(* One run of the script is: the sidebar widgets yield their values, the   *)
(* input gate decides between the projection and the warning, the engine   *)
(* calculate_projection iterates once per year, and the results are        *)
(* displayed.  A widget change reruns the script from the top.             *)
(*                                                                         *)
(* Numbers.  Python floats are modelled as fixed-point quantities: money   *)
(* is an integer count of units, UnitsPerCHF units to the franc, and       *)
(* every multiplication rounds its exact result to the nearest unit        *)
(* (ties to even), the way an IEEE-754 operation rounds to the nearest     *)
(* representable value.  round(x, 2) rounds a quantity to whole cents,     *)
(* ties to even, so emitted snapshot fields are integers counting cents.   *)
(* The resolution is coarser than a double's, so a value within a unit of  *)
(* a half cent may round to the neighbouring cent; the properties below    *)
(* do not depend on the direction in which such a value is rounded.        *)
(* Rates are kept as the integer numerators the source's literals denote:  *)
(* growth in thousandths, investment return in hundredths, the invest      *)
(* ratio in twentieths (the slider's 0.05 step).                           *)
(***************************************************************************)
EXTENDS Integers, Sequences, FiniteSets, TLC

VARIABLES
    pc,          \* position of the script run
    sidebar,     \* values returned by the sidebar widgets (lines 74-90)
    params,      \* the params dict handed to calculate_projection
    year,        \* loop variable of calculate_projection: next year to run
    salary,      \* local `salary`   (units, unrounded)
    savings,     \* local `savings`  (units, unrounded cash accumulator)
    invested,    \* local `invested` (units, unrounded)
    results,     \* local `results`: the list of emitted snapshots
    raised,      \* TRUE once an exception has propagated out of the engine
    warning,     \* TRUE once st.warning has been shown
    displayed    \* the three headline metrics once shown, else <<>>

vars == <<pc, sidebar, params, year, salary, savings, invested, results,
          raised, warning, displayed>>

-----------------------------------------------------------------------------
(* Bounds of the model *)

MaxYears == 3

AgeSpan == 2

-----------------------------------------------------------------------------
(* Number representation *)

UnitsPerCHF == 10000

UnitsPerCent == UnitsPerCHF \div 100

None == <<>>

Some(x) == <<x>>

Abs(x) == IF x < 0 THEN 0 - x ELSE x

\* a / d rounded to the nearest integer, ties to even (d > 0)
RoundDiv(a, d) ==
    LET q == a \div d
        r == a % d
    IN  IF 2 * r < d THEN q
        ELSE IF 2 * r > d THEN q + 1
        ELSE IF q % 2 = 0 THEN q ELSE q + 1

\* x * (n / d) as one floating-point multiplication: the exact product
\* rounded to the nearest representable quantity
MulRound(x, n, d) == RoundDiv(x * n, d)

\* round(x, 2): units -> whole cents
Round2(x) == RoundDiv(x, UnitsPerCent)

\* f"{v:,.0f}": cents -> whole francs
Round0(c) == RoundDiv(c, 100)

-----------------------------------------------------------------------------
(* The growth table and the engine's per-year arithmetic *)

\* rates in thousandths
INDUSTRY_GROWTH ==
    [finance |-> 50, technology |-> 60, healthcare |-> 40, education |-> 30,
     manufacturing |-> 35, retail |-> 25, government |-> 20, consulting |-> 45]

DefaultGrowth == 30

\* variant: `.get(industry, 0)`, a fallback that applies no growth
GrowthRateZeroDefault(industry) ==
    IF industry \in DOMAIN INDUSTRY_GROWTH
    THEN INDUSTRY_GROWTH[industry]
    ELSE 0

GrowthRate(industry) ==
    IF industry \in DOMAIN INDUSTRY_GROWTH
    THEN INDUSTRY_GROWTH[industry]
    ELSE DefaultGrowth

\* variant: `salary *= rate`, the `1 +` dropped
GrowSalaryRateOnly(s, industry) == MulRound(s, GrowthRate(industry), 1000)

GrowSalary(s, industry) == MulRound(s, 1000 + GrowthRate(industry), 1000)

\* variant: `>` for `>=`, the cut starting a year late
MarriedStrict(p, y) ==
    /\ p.marriage_age # None
    /\ p.marriage_age[1] # 0
    /\ p.current_age # None
    /\ p.current_age[1] + y - 1 > p.marriage_age[1]

\* `params['marriage_age'] and (current_age + year - 1) >= marriage_age`
Married(p, y) ==
    /\ p.marriage_age # None
    /\ p.marriage_age[1] # 0
    /\ p.current_age # None
    /\ p.current_age[1] + y - 1 >= p.marriage_age[1]

ReducedRent(r) == MulRound(r, 8, 10)

EffectiveRent(p, y) == IF Married(p, y) THEN ReducedRent(p.rent) ELSE p.rent

Expenses(r, monthly) == r + monthly * 12

ToInvest(annual, ratio) == MulRound(annual, ratio, 20)

ToCash(annual, ratio) == MulRound(annual, 20 - ratio, 20)

\* variant: the contribution added before the balance compounds
GrowInvestedAfter(inv, rate, to_invest) == MulRound(inv + to_invest, 100 + rate, 100)

GrowInvested(inv, rate, to_invest) == MulRound(inv, 100 + rate, 100) + to_invest

\* variant: the total left at the cash balance
TotalCashOnly(cash, inv) == cash

TotalOf(cash, inv) == cash + inv

\* `params['current_age'] + year - 1` is defined only for an int current_age
AgeRaises(p) == p.current_age = None

Snapshot(p, y, s, r, e, a, inv, cash, tot) ==
    [Year |-> y, Age |-> p.current_age[1] + y - 1,
     Salary |-> Round2(s), Rent |-> Round2(r), Expenses |-> Round2(e),
     Savings |-> Round2(a), Invested |-> Round2(inv), Cash |-> Round2(cash),
     Total |-> Round2(tot)]

\* the locals of calculate_projection as one record
Locals(y, s, cash, inv, res, exc) ==
    [year |-> y, salary |-> s, savings |-> cash, invested |-> inv,
     results |-> res, raised |-> exc]

\* lines 28-31 and the loop header
InitLocals(p) == Locals(1, p.starting_salary, 0, 0, <<>>, FALSE)

\* one iteration of the loop body, lines 34-65
Body(p, l) ==
    LET s   == GrowSalary(l.salary, p.industry)
        r   == EffectiveRent(p, l.year)
        e   == Expenses(r, p.monthly_expenses)
        a   == s - e
        ti  == ToInvest(a, p.invest_ratio)
        tc  == ToCash(a, p.invest_ratio)
        inv == GrowInvested(l.invested, p.investment_rate, ti)
        c   == l.savings + tc
        tot == TotalOf(c, inv)
    IN  IF AgeRaises(p)
        THEN Locals(l.year, s, c, inv, l.results, TRUE)
        ELSE Locals(l.year + 1, s, c, inv,
                    Append(l.results, Snapshot(p, l.year, s, r, e, a, inv, c, tot)),
                    FALSE)

LoopDone(p, l) == l.year > p.years

RECURSIVE Iterate(_, _)
Iterate(p, l) ==
    IF l.raised \/ LoopDone(p, l) THEN l ELSE Iterate(p, Body(p, l))

\* the whole call: the locals when the function returns or raises
calculate_projection(p) == Iterate(p, InitLocals(p))

-----------------------------------------------------------------------------
(* The script *)

CHF(n) == n * UnitsPerCHF

NoParams ==
    [starting_salary |-> 0, rent |-> 0, monthly_expenses |-> 0, years |-> 0,
     industry |-> "", investment_rate |-> 0, invest_ratio |-> 0,
     current_age |-> None, marriage_age |-> None]

MinAge == 18

Ages == MinAge .. (MinAge + AgeSpan)

\* the marriage plan: both ages, or neither (lines 85-90)
MarriagePlans ==
    {<<None, None>>} \cup {<<Some(c), Some(m)>> : c \in Ages, m \in Ages}

YearChoices == 1 .. MaxYears

\* values the widgets are driven to: whole francs for the number inputs
\* (integer widgets, min_value=0), slider positions for the rates
SalaryChoices == {CHF(0), CHF(1), CHF(30)}

RentChoices == {CHF(0), CHF(1), CHF(12)}

MonthlyChoices == {CHF(0), CHF(1)}

IndustryChoices == DOMAIN INDUSTRY_GROWTH

RateChoices == {0, 5, 20}

RatioChoices == {0, 7, 20}

\* variant: `or` for `and` in the gate
InputsProvidedAny(s, r, m) == s > 0 \/ r > 0 \/ m > 0

InputsProvided(s, r, m) == s > 0 /\ r > 0 /\ m > 0

Init ==
    /\ pc = "sidebar"
    /\ sidebar = NoParams
    /\ params = NoParams
    /\ year = 0
    /\ salary = 0
    /\ savings = 0
    /\ invested = 0
    /\ results = <<>>
    /\ raised = FALSE
    /\ warning = FALSE
    /\ displayed = <<>>

\* lines 70-90: the widgets return the user's current values
Sidebar ==
    /\ pc = "sidebar"
    /\ \E s \in SalaryChoices, r \in RentChoices, m \in MonthlyChoices,
          n \in YearChoices, i \in IndustryChoices, ir \in RateChoices,
          k \in RatioChoices, mp \in MarriagePlans :
          sidebar' = [starting_salary |-> s, rent |-> r, monthly_expenses |-> m,
                      years |-> n, industry |-> i, investment_rate |-> ir,
                      invest_ratio |-> k, current_age |-> mp[1],
                      marriage_age |-> mp[2]]
    /\ pc' = "gate"
    /\ UNCHANGED <<params, year, salary, savings, invested, results, raised,
                   warning, displayed>>

SetLocals(l) ==
    /\ year' = l.year
    /\ salary' = l.salary
    /\ savings' = l.savings
    /\ invested' = l.invested
    /\ results' = l.results
    /\ raised' = l.raised

\* lines 93-106 and 141-142: the gate; the call enters the engine
Gate ==
    /\ pc = "gate"
    /\ IF InputsProvided(sidebar.starting_salary, sidebar.rent,
                         sidebar.monthly_expenses)
       THEN /\ params' = sidebar
            /\ SetLocals(InitLocals(sidebar))
            /\ pc' = "loop"
            /\ UNCHANGED warning
       ELSE /\ warning' = TRUE
            /\ pc' = "warned"
            /\ UNCHANGED <<params, year, salary, savings, invested, results, raised>>
    /\ UNCHANGED <<sidebar, displayed>>

CurrentLocals == Locals(year, salary, savings, invested, results, raised)

\* lines 33-65: one pass through the loop body
YearStep ==
    /\ pc = "loop"
    /\ ~LoopDone(params, CurrentLocals)
    /\ LET l == Body(params, CurrentLocals)
       IN  /\ SetLocals(l)
           /\ pc' = IF l.raised THEN "error" ELSE "loop"
    /\ UNCHANGED <<sidebar, params, warning, displayed>>

\* line 67
Return ==
    /\ pc = "loop"
    /\ LoopDone(params, CurrentLocals)
    /\ pc' = "returned"
    /\ UNCHANGED <<sidebar, params, year, salary, savings, invested, results,
                   raised, warning, displayed>>

\* lines 108-140: metrics, charts and table from the returned list
Display ==
    /\ pc = "returned"
    /\ displayed' = <<Round0(results[Len(results)].Total),
                      Round0(results[Len(results)].Invested),
                      Round0(results[Len(results)].Salary)>>
    /\ pc' = "done"
    /\ UNCHANGED <<sidebar, params, year, salary, savings, invested, results,
                   raised, warning>>

\* a widget interaction reruns the script from the top with fresh state
Rerun ==
    /\ pc \in {"done", "warned", "error"}
    /\ pc' = "sidebar"
    /\ sidebar' = NoParams
    /\ params' = NoParams
    /\ year' = 0
    /\ salary' = 0
    /\ savings' = 0
    /\ invested' = 0
    /\ results' = <<>>
    /\ raised' = FALSE
    /\ warning' = FALSE
    /\ displayed' = <<>>

Next == Sidebar \/ Gate \/ YearStep \/ Return \/ Display \/ Rerun

Spec == Init /\ [][Next]_vars

-----------------------------------------------------------------------------
(* The engine alone, over its documented precondition domain: positive     *)
(* decimal amounts, any industry string, both ages or neither.             *)

FnSalaryChoices == {CHF(1) \div 10, CHF(2) \div 5, CHF(1), CHF(30)}

FnRentChoices == {CHF(1) \div 2, CHF(12)}

FnMonthlyChoices == {CHF(1) \div 20, CHF(1)}

FnIndustryChoices == DOMAIN INDUSTRY_GROWTH \cup {"unknown_key"}

FnRateChoices == {0, 5}

FnRatioChoices == {0, 7, 20}

InitFn ==
    /\ pc = "loop"
    /\ sidebar = NoParams
    /\ \E s \in FnSalaryChoices, r \in FnRentChoices, m \in FnMonthlyChoices,
          n \in YearChoices, i \in FnIndustryChoices, ir \in FnRateChoices,
          k \in FnRatioChoices, mp \in MarriagePlans :
          params = [starting_salary |-> s, rent |-> r, monthly_expenses |-> m,
                    years |-> n, industry |-> i, investment_rate |-> ir,
                    invest_ratio |-> k, current_age |-> mp[1],
                    marriage_age |-> mp[2]]
    /\ year = InitLocals(params).year
    /\ salary = InitLocals(params).salary
    /\ savings = InitLocals(params).savings
    /\ invested = InitLocals(params).invested
    /\ results = InitLocals(params).results
    /\ raised = InitLocals(params).raised
    /\ warning = FALSE
    /\ displayed = <<>>

NextFn == YearStep \/ Return

SpecFn == InitFn /\ [][NextFn]_vars

-----------------------------------------------------------------------------
(* Properties *)

\* the engine has been entered in this run
Invoked == pc \in {"loop", "error", "returned", "done"}

\* the call has ended, by return or by exception
Ended == pc \in {"error", "returned", "done"}

NoPlan == params.current_age = None /\ params.marriage_age = None

HasPlan == params.current_age # None /\ params.marriage_age # None

Emitted == 1 .. Len(results)

\* the snapshot's Rent (cents) is the input rent / is 0.8 times the input rent
FullRent(n) == results[n].Rent * UnitsPerCent = params.rent

CutRent(n) == results[n].Rent * UnitsPerCent * 10 = params.rent * 8

AgeIn(n) == params.current_age[1] + n - 1

\* C1: over the documented precondition domain calculate_projection runs to
\* completion and never raises, in particular with no marriage plan.
C1_EngineNeverRaises == ~raised /\ pc # "error"

\* C2: with current_age and marriage_age both absent the call returns its
\* snapshots and every snapshot's Rent equals the input rent.
C2_NoPlanConstantRent ==
    (Ended /\ NoPlan) =>
        /\ ~raised
        /\ Len(results) = params.years
        /\ \A n \in Emitted : FullRent(n)

\* C3: with a marriage plan, the snapshot of year y has the input rent while
\* age < marriage_age and exactly 0.8 times the input rent from
\* age >= marriage_age on; the cut is never compounded and never reverts, and
\* every year of the projection gets its snapshot.
C3_RentThreshold ==
    (Invoked /\ HasPlan) =>
        /\ ~raised
        /\ Len(results) = year - 1
        /\ \A n \in Emitted :
              /\ results[n].Age = AgeIn(n)
              /\ AgeIn(n) < params.marriage_age[1] => FullRent(n)
              /\ AgeIn(n) >= params.marriage_age[1] => CutRent(n)
        /\ \A m \in Emitted, n \in Emitted :
              (m < n /\ CutRent(m)) => CutRent(n)

C3_Witness ==
    /\ pc = "returned"
    /\ HasPlan
    /\ Len(results) >= 3
    /\ FullRent(1) /\ ~CutRent(1)
    /\ CutRent(2) /\ CutRent(3) /\ ~FullRent(3)

\* C4: for every valid years the call yields exactly `years` snapshots whose
\* Year fields are 1, 2, ..., years in order, with no early termination.
C4_LengthAndOrder ==
    /\ Ended => (Len(results) = params.years /\ ~raised)
    /\ \A n \in Emitted : results[n].Year = n

\* C5 as claimed: between the emitted fields,
\* Invested[n] = Invested[n-1] * (1 + investment_rate) + Savings[n] * invest_ratio
\* exactly (Invested[0] = 0); both sides are scaled by 100 to stay integral.
PrevInvested(n) == IF n = 1 THEN 0 ELSE results[n - 1].Invested

EmittedGap(n) ==
    results[n].Invested * 100
        - (PrevInvested(n) * (100 + params.investment_rate)
           + results[n].Savings * params.invest_ratio * 5)

C5_EmittedRecurrenceExact == \A n \in Emitted : EmittedGap(n) = 0

\* the year that a pass through the loop body is about to compute
AnnualSavingsNow ==
    GrowSalary(salary, params.industry)
        - (EffectiveRent(params, year) + params.monthly_expenses * 12)

\* C5 amended, on the unrounded accumulator: each pass sets
\* invested = invested * (1 + investment_rate) + annual_savings * invest_ratio,
\* the prior balance compounding first and the contribution earning nothing
\* in its own year
C5_AccumulatorStep ==
    (pc = "loop" /\ year <= params.years) =>
        invested' = RoundDiv(invested * (100 + params.investment_rate), 100)
                      + RoundDiv(AnnualSavingsNow * params.invest_ratio, 20)

\* C5 amended, on the emitted fields: the newest snapshot's Invested is the
\* accumulator rounded to 2 decimals, and the recurrence between emitted
\* fields holds to within 0.02
C5_EmittedWithinTolerance ==
    /\ (Len(results) > 0 /\ ~raised) =>
          results[Len(results)].Invested = Round2(invested)
    /\ \A n \in Emitted : Abs(EmittedGap(n)) <= 2 * 100

\* C5 (amended): the unrounded accumulator obeys the recurrence exactly
\* (prior balance first, contribution without return in its own year); the
\* emitted Invested is that accumulator rounded to 2 decimals, so between the
\* emitted fields the recurrence holds only to within 0.02.
C5_InvestedRecurrence ==
    [][C5_AccumulatorStep]_vars /\ []C5_EmittedWithinTolerance

C5_Witness ==
    /\ pc = "returned"
    /\ Len(results) >= 3
    /\ params.investment_rate > 0
    /\ params.invest_ratio > 0
    /\ results[1].Invested # 0
    /\ EmittedGap(1) = 0
    /\ EmittedGap(2) # 0

\* C6: in every emitted snapshot the rounded Total differs from the sum of
\* the rounded Cash and the rounded Invested by at most 0.01.
C6_Conservation ==
    \A n \in Emitted :
        Abs(results[n].Total - (results[n].Cash + results[n].Invested)) <= 1

C6_Witness ==
    /\ pc = "returned"
    /\ \E n \in Emitted :
          /\ results[n].Cash # 0
          /\ results[n].Invested # 0
          /\ Abs(results[n].Total - (results[n].Cash + results[n].Invested)) = 1

\* C7 as claimed: with a positive growth rate the emitted Salary is strictly
\* increasing for every starting_salary > 0.
C7_SalaryStrictlyIncreasing ==
    \A n \in Emitted :
        (n > 1 /\ GrowthRate(params.industry) > 0) =>
            results[n - 1].Salary < results[n].Salary

\* C7 (amended): with a positive growth rate the emitted Salary never
\* decreases, and it is strictly increasing whenever starting_salary >= 1
\* (one franc, the least positive value the app's input yields); below that
\* consecutive snapshots can show the same rounded Salary.
C7_SalaryMonotone ==
    \A n \in Emitted :
        (n > 1 /\ GrowthRate(params.industry) > 0) =>
            /\ results[n - 1].Salary <= results[n].Salary
            /\ params.starting_salary >= CHF(1) =>
                  results[n - 1].Salary < results[n].Salary

C7_Witness ==
    /\ pc = "returned"
    /\ Len(results) >= 3
    /\ params.starting_salary >= CHF(1)
    /\ results[1].Salary < results[2].Salary
    /\ results[2].Salary < results[3].Salary

\* the same call with the industry replaced by 'education' (table rate 0.03)
AsEducation == calculate_projection([params EXCEPT !.industry = "education"])

Salaries(res) == [n \in 1 .. Len(res) |-> res[n].Salary]

C9_InputGate ==
    /\ Invoked =>
          /\ sidebar.starting_salary > 0
          /\ sidebar.rent > 0
          /\ sidebar.monthly_expenses > 0
          /\ ~warning
    /\ (pc \notin {"sidebar", "gate"}
          /\ (sidebar.starting_salary = 0 \/ sidebar.rent = 0
                \/ sidebar.monthly_expenses = 0)) =>
          /\ pc = "warned"
          /\ warning
          /\ params = NoParams
          /\ results = <<>>
          /\ displayed = <<>>
    /\ displayed # <<>> => (pc = "done" /\ ~warning)

C9_Witness ==
    /\ pc = "warned"
    /\ warning
    /\ sidebar.starting_salary > 0
    /\ sidebar.rent > 0
    /\ sidebar.monthly_expenses = 0

\* C10: in any year whose expenses exceed the grown salary the engine neither
\* clamps nor errors: the snapshot's Savings is negative and is salary -
\* expenses, cash changes by Savings * (1 - invest_ratio), the contribution
\* added to Invested is negative, and the projection goes on.
C10_NegativeYearStep ==
    (pc = "loop" /\ year <= params.years /\ AnnualSavingsNow < 0) =>
        /\ pc' = "loop"
        /\ ~raised'
        /\ Len(results') = Len(results) + 1
        /\ results'[Len(results')].Savings = Round2(AnnualSavingsNow)
        /\ results'[Len(results')].Savings <= 0
        /\ savings' = savings + RoundDiv(AnnualSavingsNow * (20 - params.invest_ratio), 20)
        /\ savings' <= savings
        /\ invested' = RoundDiv(invested * (100 + params.investment_rate), 100)
                         + RoundDiv(AnnualSavingsNow * params.invest_ratio, 20)
        /\ RoundDiv(AnnualSavingsNow * params.invest_ratio, 20) <= 0

C10_NegativeSavingsCarried == [][C10_NegativeYearStep]_vars

====
